---- MODULE Spec2Model ----
(***************************************************************************)
(* Model of thyming.Timer (src/src/thyming/timer.py): a stopwatch that     *)
(* records elapsed times, optionally logging a message at each click.      *)
(*                                                                         *)
(* Encoding conventions                                                    *)
(*  - Optional[x] is a sequence: <<>> is None, <<v>> is the value v.       *)
(*  - A Python str is a sequence of tokens; the token "\n" is the newline. *)
(*  - perf_counter() is the integer variable clock, which never decreases. *)
(*  - dt.now().isoformat(...) is the opaque token "<iso>".                 *)
(*  - A second Timer, built with the same arguments but logger=None, is    *)
(*    driven by the same calls under the same clock (variables ending in   *)
(*    0); it is the reference for statements about the effect of logging.  *)
(***************************************************************************)
EXTENDS Integers, Sequences, FiniteSets, TLC

VARIABLES
    name,            \* Timer.name
    message,         \* Timer.message (the template)
    logger,          \* Timer.logger: "None", "sink" or "raising" (a sink that
                     \* raises on the lines it rejects)
    start_time,      \* Timer.start_time
    recorded_times,  \* Timer.recorded_times
    clock,           \* the reading of perf_counter()
    depth,           \* number of with-blocks on the timer currently open
    session,         \* history: samples recorded since start_time was last set
    since_stop,      \* history: a stop has returned and no start has since
    started_at,      \* history (SpecRun): start_time as the last start that
                     \* returned left it, None once a stop has returned
    op,              \* the last call made on the timer
    args,            \* the messages that call was made with
    exc_in,          \* the exception handed to __exit__ ("none" outside an exit)
    err,             \* the error the last call raised
    ret,             \* the value the last call returned
    logged,          \* the lines the sink accepted during the last call
    held,            \* the object the caller got from the times accessor
    start_time0,     \* the same fields and results for the logger=None timer
    recorded_times0,
    err0,
    ret0,
    logged0

vars == <<name, message, logger, start_time, recorded_times, clock, depth,
          session, since_stop, started_at, op, args, exc_in, err, ret, logged, held, start_time0,
          recorded_times0, err0, ret0, logged0>>

config == <<name, message, logger>>

(***************************************************************************)
(* Bounds                                                                  *)
(***************************************************************************)
MaxClock == 2      \* perf_counter() readings are 0..MaxClock
MaxSamples == 2    \* at most this many samples are recorded
MaxDepth == 1      \* at most this many nested with-blocks
MaxSeed == 2       \* the largest start_time handed to the constructor

(***************************************************************************)
(* Values                                                                  *)
(***************************************************************************)
None == <<>>
Some(v) == <<v>>

NL == "\n"

\* TimerMessage = Union[str, None, DefaultMessage]
MsgNone == [kind |-> "none", ctx |-> "", s |-> <<>>]
MsgDefault(c) == [kind |-> "default", ctx |-> c, s |-> <<>>]
MsgStr(str) == [kind |-> "str", ctx |-> "", s |-> str]

DefaultMessage == {"START", "MEASURE", "END"}

\* `if x:` on a TimerMessage: None and "" are falsy, every member of a plain
\* Enum is truthy (also START = 0).
MsgTruthy(m) ==
    CASE m.kind = "none" -> FALSE
      [] m.kind = "default" -> TRUE
      [] OTHER -> m.s # <<>>

\* `if self.logger:` / `self.logger is not None`
LoggerTruthy(l) == l # "None"

DefaultTemplate == <<"Elapsed time: ", "{:0.4f}", " seconds.">>
IntTemplate == <<"n=", "{:d}">>

Names == {None, Some(<<"t">>)}
Templates == {DefaultTemplate, IntTemplate}
LoggerKinds == {"None", "sink", "raising"}
Seeds == {0, MaxSeed}

\* The constructor arguments the timers are built with
Configs ==
    {[name |-> n, message |-> DefaultTemplate, logger |-> "sink"] : n \in Names}
    \cup {[name |-> None, message |-> DefaultTemplate, logger |-> l] :
             l \in LoggerKinds}
    \cup {[name |-> None, message |-> IntTemplate, logger |-> "sink"]}

\* The configurations also built with a start_time argument
SeededConfigs == {c \in Configs : c.logger = "None"}

\* The arguments the calls are made with
StartMessages == {MsgNone, MsgStr(<<>>), MsgDefault("START"), MsgStr(<<"a", NL, "b">>)}
ClickMessages ==
    {<<MsgNone, MsgNone>>, <<MsgDefault("END"), MsgStr(<<"z">>)>>,
     <<MsgStr(<<"a", NL, "b">>), MsgDefault("MEASURE")>>}
LogMessages == {MsgNone, MsgDefault("MEASURE"), MsgStr(<<"a", NL, "b">>)}

NoError == [type |-> "none", timer_name |-> <<>>, action |-> ""]
RetNone == [kind |-> "None", val |-> 0]
RetSelf == [kind |-> "self", val |-> 0]
RetFloat(v) == [kind |-> "float", val |-> v]
RetRaised == [kind |-> "raised", val |-> 0]
RetList == [kind |-> "list", val |-> 0]

\* bool(x) of a returned value: None is falsy, a float is falsy when it is 0.0
RetTruthy(r) == r.kind = "self" \/ (r.kind = "float" /\ r.val # 0)

\* A Timer object
Timer(n, m, l, st, rt) ==
    [name |-> n, message |-> m, logger |-> l, start_time |-> st, recorded_times |-> rt]

\* The result of one call: the fields afterwards, the error raised, the value
\* returned and the lines the sink accepted.
Outcome(st, rt, e, r, out) ==
    [start_time |-> st, recorded_times |-> rt, err |-> e, ret |-> r, logged |-> out]

(***************************************************************************)
(* Errors                                                                  *)
(***************************************************************************)
_timer_name(t) ==
    IF t.name # None /\ t.name[1] # <<>>
    THEN <<"Timer(name=">> \o t.name[1] \o <<")">>
    ELSE <<"Unnamed Timer">>

TimerAlreadyRunningError(t) ==
    [type |-> "TimerAlreadyRunningError", timer_name |-> _timer_name(t), action |-> ""]

TimerNotRunningError(t, action) ==
    [type |-> "TimerNotRunningError", timer_name |-> _timer_name(t), action |-> action]

\* The exception a raising sink throws, and the one str.format throws.
SinkError == [type |-> "SinkError", timer_name |-> <<>>, action |-> ""]
ValueError == [type |-> "ValueError", timer_name |-> <<>>, action |-> ""]

(***************************************************************************)
(* Strings                                                                 *)
(***************************************************************************)
RECURSIVE Split(_)
\* str.split("\n"): the pieces between newlines, k newlines give k+1 pieces.
Split(s) ==
    IF \A i \in 1..Len(s) : s[i] # NL
    THEN <<s>>
    ELSE LET i == CHOOSE k \in 1..Len(s) :
                      s[k] = NL /\ \A j \in 1..(k - 1) : s[j] # NL
         IN <<SubSeq(s, 1, i - 1)>> \o Split(SubSeq(s, i + 1, Len(s)))

\* format(v, "0.4f") of a whole number of seconds
Fixed4(v) == <<ToString(v), ".0000">>

\* str.format raises ValueError for the presentation type d applied to a float
FormatRaises(template) == \E i \in 1..Len(template) : template[i] = "{:d}"

RECURSIVE Format(_, _)
\* self.message.format(recorded_time), for a template that formats
Format(template, v) ==
    IF template = <<>> THEN <<>>
    ELSE (IF Head(template) = "{:0.4f}" THEN Fixed4(v) ELSE <<Head(template)>>)
         \o Format(Tail(template), v)

\* _timestamp_to_msg without the branch for END... taken as MEASURE
_timestamp_to_msg_EndAsMeasure(c) ==
    CASE c = "START" -> <<"START: ", "<iso>">>
      [] OTHER -> <<"MEASURED: ", "<iso>">>

_timestamp_to_msg(c) ==
    CASE c = "START" -> <<"START: ", "<iso>">>
      [] c = "MEASURE" -> <<"MEASURED: ", "<iso>">>
      [] OTHER -> <<"END: ", "<iso>">>

\* The text a TimerMessage stands for in _get_logging_message, after the
\* isinstance(..., DefaultMessage) replacement; None gives the empty text.
Resolve(m) ==
    CASE m.kind = "default" -> _timestamp_to_msg(m.ctx)
      [] m.kind = "str" -> m.s
      [] OTHER -> <<>>

_get_logging_message(t, recorded_time, msg_pre, msg_post) ==
    LET pre == Resolve(msg_pre)
        post == Resolve(msg_post)
        head == IF pre # <<>> THEN pre \o <<NL>>
                ELSE IF t.name # None /\ t.name[1] # <<>> THEN t.name[1] \o <<":", NL>>
                ELSE <<>>
        body == head \o Format(t.message, recorded_time)
    IN IF post # <<>> THEN body \o <<NL>> \o post ELSE body

(***************************************************************************)
(* Operations, as functions from a Timer and the call's inputs to an       *)
(* Outcome                                                                 *)
(***************************************************************************)
\* The lines the raising sink raises on
Rejected(line) == line = <<"b">>

\* The calls of self.logger made for the lines `lines`, in order: a raising
\* sink accepts the lines before the first one it rejects and throws there.
Emit(t, lines) ==
    IF t.logger = "raising" /\ \E i \in 1..Len(lines) : Rejected(lines[i])
    THEN LET i == CHOOSE k \in 1..Len(lines) :
                      Rejected(lines[k]) /\ \A j \in 1..(k - 1) : ~Rejected(lines[j])
         IN [err |-> SinkError, logged |-> SubSeq(lines, 1, i - 1)]
    ELSE [err |-> NoError, logged |-> lines]

\* log without the return for a message that is None
log_NoNoneCheck(t, msg) ==
    LET r == IF t.logger = "None" THEN [err |-> NoError, logged |-> <<>>]
             ELSE IF msg.kind = "none" THEN Emit(t, <<<<"None">>>>)
             ELSE IF msg.kind = "default" THEN Emit(t, <<_timestamp_to_msg(msg.ctx)>>)
             ELSE Emit(t, Split(msg.s))
    IN Outcome(t.start_time, t.recorded_times, r.err,
               IF r.err = NoError THEN RetSelf ELSE RetRaised, r.logged)

log(t, msg) ==
    LET r == IF t.logger = "None" THEN [err |-> NoError, logged |-> <<>>]
             ELSE IF msg.kind = "none" THEN [err |-> NoError, logged |-> <<>>]
             ELSE IF msg.kind = "default" THEN Emit(t, <<_timestamp_to_msg(msg.ctx)>>)
             ELSE Emit(t, Split(msg.s))
    IN Outcome(t.start_time, t.recorded_times, r.err,
               IF r.err = NoError THEN RetSelf ELSE RetRaised, r.logged)

\* start without the check of start_time
start_NoCheck(t, click_message, now) ==
    LET started == [t EXCEPT !.start_time = Some(now)]
    IN Outcome(started.start_time, started.recorded_times, NoError, RetSelf, <<>>)

\* start with the assignment of start_time moved under `if click_message:`
start_CapturesWhenLogging(t, click_message, now) ==
    IF t.start_time # None
    THEN Outcome(t.start_time, t.recorded_times, TimerAlreadyRunningError(t),
                 RetRaised, <<>>)
    ELSE IF MsgTruthy(click_message)
         THEN LET started == [t EXCEPT !.start_time = Some(now)]
                  r == log(started, click_message)
              IN Outcome(started.start_time, started.recorded_times, r.err,
                         IF r.err = NoError THEN RetSelf ELSE RetRaised, r.logged)
         ELSE Outcome(t.start_time, t.recorded_times, NoError, RetSelf, <<>>)

start(t, click_message, now) ==
    IF t.start_time # None
    THEN Outcome(t.start_time, t.recorded_times, TimerAlreadyRunningError(t),
                 RetRaised, <<>>)
    ELSE LET started == [t EXCEPT !.start_time = Some(now)]
         IN IF MsgTruthy(click_message) /\ t.logger # "None"
            THEN LET r == log(started, click_message)
                 IN Outcome(started.start_time, started.recorded_times, r.err,
                            IF r.err = NoError THEN RetSelf ELSE RetRaised, r.logged)
            ELSE Outcome(started.start_time, started.recorded_times, NoError,
                         RetSelf, <<>>)

\* _click with the append moved under `if self.logger:`
_click_AppendsWhenLogging(t, stop_timer, msg_pre, msg_post, action, now) ==
    IF t.start_time = None
    THEN Outcome(t.start_time, t.recorded_times, TimerNotRunningError(t, action),
                 RetRaised, <<>>)
    ELSE LET recorded_time == now - t.start_time[1]
             st == IF stop_timer THEN None ELSE t.start_time
             rt == Append(t.recorded_times, recorded_time)
             clicked == [t EXCEPT !.start_time = st, !.recorded_times = rt]
         IN IF LoggerTruthy(t.logger)
            THEN IF FormatRaises(t.message)
                 THEN Outcome(st, rt, ValueError, RetRaised, <<>>)
                 ELSE LET r == log(clicked, MsgStr(_get_logging_message(
                                     clicked, recorded_time, msg_pre, msg_post)))
                      IN Outcome(st, rt, r.err,
                                 IF r.err = NoError THEN RetFloat(recorded_time)
                                 ELSE RetRaised,
                                 r.logged)
            ELSE Outcome(st, t.recorded_times, NoError, RetFloat(recorded_time), <<>>)

_click(t, stop_timer, msg_pre, msg_post, action, now) ==
    IF t.start_time = None
    THEN Outcome(t.start_time, t.recorded_times, TimerNotRunningError(t, action),
                 RetRaised, <<>>)
    ELSE LET recorded_time == now - t.start_time[1]
             st == IF stop_timer THEN None ELSE t.start_time
             rt == Append(t.recorded_times, recorded_time)
             clicked == [t EXCEPT !.start_time = st, !.recorded_times = rt]
         IN IF LoggerTruthy(t.logger)
            THEN IF FormatRaises(t.message)
                 THEN Outcome(st, rt, ValueError, RetRaised, <<>>)
                 ELSE LET r == log(clicked, MsgStr(_get_logging_message(
                                     clicked, recorded_time, msg_pre, msg_post)))
                      IN Outcome(st, rt, r.err,
                                 IF r.err = NoError THEN RetFloat(recorded_time)
                                 ELSE RetRaised,
                                 r.logged)
            ELSE Outcome(st, rt, NoError, RetFloat(recorded_time), <<>>)

stop(t, msg_pre, msg_post, now) == _click(t, TRUE, msg_pre, msg_post, "stop", now)

\* measure tagging its error with the action of stop
measure_StopAction(t, msg_pre, msg_post, now) ==
    _click(t, FALSE, msg_pre, msg_post, "stop", now)

measure(t, msg_pre, msg_post, now) == _click(t, FALSE, msg_pre, msg_post, "measure", now)

\* restart handing msg_pre to start as well
restart_StartLogsPre(t, msg_pre, msg_post, now, later) ==
    LET r1 == _click(t, TRUE, msg_pre, msg_post, "stop", now)
    IN IF r1.err # NoError THEN r1
       ELSE LET r2 == start([t EXCEPT !.start_time = r1.start_time,
                                      !.recorded_times = r1.recorded_times],
                            msg_pre, later)
            IN Outcome(r2.start_time, r2.recorded_times, r2.err, r2.ret,
                       r1.logged \o r2.logged)

\* restart written as `self.measure(msg_pre, msg_post); return self.start()`
restart_MeasureThenStart(t, msg_pre, msg_post, now, later) ==
    LET r1 == measure(t, msg_pre, msg_post, now)
    IN IF r1.err # NoError THEN r1
       ELSE LET r2 == start([t EXCEPT !.start_time = r1.start_time,
                                      !.recorded_times = r1.recorded_times],
                            MsgNone, later)
            IN Outcome(r2.start_time, r2.recorded_times, r2.err, r2.ret,
                       r1.logged \o r2.logged)

\* self.stop(msg_pre, msg_post); return self.start(), the two reading the
\* clock at now and at later
restart(t, msg_pre, msg_post, now, later) ==
    LET r1 == stop(t, msg_pre, msg_post, now)
    IN IF r1.err # NoError THEN r1
       ELSE LET r2 == start([t EXCEPT !.start_time = r1.start_time,
                                      !.recorded_times = r1.recorded_times],
                            MsgNone, later)
            IN Outcome(r2.start_time, r2.recorded_times, r2.err, r2.ret,
                       r1.logged \o r2.logged)

\* __enter__ written as `if self.start_time is None: self.start()`
enter_IfStopped(t, now) ==
    IF t.start_time # None
    THEN Outcome(t.start_time, t.recorded_times, NoError, RetNone, <<>>)
    ELSE LET r == start(t, MsgNone, now)
         IN Outcome(r.start_time, r.recorded_times, r.err,
                    IF r.err = NoError THEN RetNone ELSE RetRaised, r.logged)

__enter__(t, now) ==
    LET r == start(t, MsgNone, now)
    IN Outcome(r.start_time, r.recorded_times, r.err,
               IF r.err = NoError THEN RetNone ELSE RetRaised, r.logged)

\* __exit__ written as `return self.stop()`
exit_ReturnsElapsed(t, now) ==
    IF t.start_time # None
    THEN stop(t, MsgNone, MsgNone, now)
    ELSE Outcome(t.start_time, t.recorded_times, NoError, RetNone, <<>>)

\* __exit__ without the check of start_time
exit_AlwaysStops(t, now) ==
    LET r == stop(t, MsgNone, MsgNone, now)
    IN Outcome(r.start_time, r.recorded_times, r.err,
               IF r.err = NoError THEN RetNone ELSE RetRaised, r.logged)

__exit__(t, now) ==
    IF t.start_time # None
    THEN LET r == stop(t, MsgNone, MsgNone, now)
         IN Outcome(r.start_time, r.recorded_times, r.err,
                    IF r.err = NoError THEN RetNone ELSE RetRaised, r.logged)
    ELSE Outcome(t.start_time, t.recorded_times, NoError, RetNone, <<>>)

\* The times property: `return self.recorded_times`, the list object of the
\* timer itself and not a copy of it
times(t) == [object |-> "recorded_times", items |-> t.recorded_times]

(***************************************************************************)
(* The state machine                                                       *)
(***************************************************************************)
Self == Timer(name, message, logger, start_time, recorded_times)
Self0 == Timer(name, message, "None", start_time0, recorded_times0)

\* The call sets start_time to a new reading of the clock: a start that
\* passes its check, or a restart that gets as far as its start.
NewRun(call, r) ==
    \/ call \in {"start", "enter"} /\ start_time = None
    \/ call = "restart" /\ r.err = NoError

\* The call is a start that returns, or ends with one.
StartReturns(call, r) == call \in {"start", "enter", "restart"} /\ r.err = NoError

\* The call is a stop that returns, or ends with one.
StopReturns(call, r) ==
    /\ r.err = NoError
    /\ \/ call = "stop"
       \/ call = "exit" /\ start_time # None

\* Both timers take the outcome of the same call.
Outcomes(call, a, r, r0) ==
    /\ op' = call
    /\ args' = a
    /\ session' = IF NewRun(call, r) THEN 0
                  ELSE session + Len(r.recorded_times) - Len(recorded_times)
    /\ since_stop' = IF StartReturns(call, r) THEN FALSE
                     ELSE IF StopReturns(call, r) THEN TRUE
                     ELSE since_stop
    /\ start_time' = r.start_time
    /\ recorded_times' = r.recorded_times
    /\ err' = r.err
    /\ ret' = r.ret
    /\ logged' = r.logged
    /\ start_time0' = r0.start_time
    /\ recorded_times0' = r0.recorded_times
    /\ err0' = r0.err
    /\ ret0' = r0.ret
    /\ logged0' = r0.logged
    /\ UNCHANGED <<config, held>>

Apply(call, a, r, r0) == Outcomes(call, a, r, r0) /\ UNCHANGED started_at

\* The same, keeping the start_time of the last start that returned
Track(call, a, r, r0) ==
    /\ Outcomes(call, a, r, r0)
    /\ started_at' = IF StartReturns(call, r) THEN r.start_time
                     ELSE IF StopReturns(call, r) THEN None
                     ELSE started_at

\* Room for one more sample in both timers
Room == Len(recorded_times) < MaxSamples /\ Len(recorded_times0) < MaxSamples

Init ==
    /\ \E c \in Configs :
           /\ name = c.name
           /\ message = c.message
           /\ logger = c.logger
           /\ start_time \in {None} \cup
                  (IF c \in SeededConfigs THEN {Some(s) : s \in Seeds} ELSE {})
    /\ recorded_times = <<>>
    /\ clock = 0
    /\ depth = 0
    /\ session = 0
    /\ since_stop = FALSE
    /\ started_at = None
    /\ op = "init"
    /\ args = <<>>
    /\ exc_in = "none"
    /\ err = NoError
    /\ ret = RetNone
    /\ logged = <<>>
    /\ held = "none"
    /\ start_time0 = start_time
    /\ recorded_times0 = <<>>
    /\ err0 = NoError
    /\ ret0 = RetNone
    /\ logged0 = <<>>

Start ==
    \E m \in StartMessages :
        /\ Apply("start", <<m>>, start(Self, m, clock), start(Self0, m, clock))
        /\ exc_in' = "none"
        /\ UNCHANGED <<clock, depth>>

Measure ==
    \E m \in ClickMessages :
        /\ Room
        /\ Apply("measure", m, measure(Self, m[1], m[2], clock),
                 measure(Self0, m[1], m[2], clock))
        /\ exc_in' = "none"
        /\ UNCHANGED <<clock, depth>>

Stop ==
    \E m \in ClickMessages :
        /\ Room
        /\ Apply("stop", m, stop(Self, m[1], m[2], clock), stop(Self0, m[1], m[2], clock))
        /\ exc_in' = "none"
        /\ UNCHANGED <<clock, depth>>

Restart ==
    \E m \in ClickMessages, d \in 0..1 :
        /\ Room
        /\ clock + d <= MaxClock
        /\ Apply("restart", m, restart(Self, m[1], m[2], clock, clock + d),
                 restart(Self0, m[1], m[2], clock, clock + d))
        /\ clock' = clock + d
        /\ exc_in' = "none"
        /\ UNCHANGED depth

Log ==
    \E m \in LogMessages :
        /\ Apply("log", <<m>>, log(Self, m), log(Self0, m))
        /\ exc_in' = "none"
        /\ UNCHANGED <<clock, depth>>

\* Timer.sleep(seconds): the clock moves on while the caller is blocked
Sleep ==
    \E d \in 0..1 :
        /\ clock + d <= MaxClock
        /\ clock' = clock + d
        /\ op' = "sleep"
        /\ args' = <<>>
        /\ err' = NoError
        /\ ret' = RetNone
        /\ logged' = <<>>
        /\ err0' = NoError
        /\ ret0' = RetNone
        /\ logged0' = <<>>
        /\ exc_in' = "none"
        /\ UNCHANGED <<config, start_time, recorded_times, start_time0,
                       recorded_times0, depth, session, since_stop, started_at,
                       held>>

\* `with timer:` reaches __enter__; the block is entered when it returns
Enter ==
    /\ depth < MaxDepth
    /\ Apply("enter", <<>>, __enter__(Self, clock), __enter__(Self0, clock))
    /\ depth' = IF __enter__(Self, clock).err = NoError THEN depth + 1 ELSE depth
    /\ exc_in' = "none"
    /\ UNCHANGED clock

\* The block is left, normally, by return/break/continue, or by an exception
Exit ==
    \E how \in {"normal", "early", "error"} :
        /\ depth > 0
        /\ Room
        /\ Apply("exit", <<>>, __exit__(Self, clock), __exit__(Self0, clock))
        /\ exc_in' = IF how = "error" THEN "BlockError" ELSE "none"
        /\ depth' = depth - 1
        /\ UNCHANGED clock

\* What the caller of the last call sees raised. At the end of a with-block
\* the exception of the block goes on unless __exit__ returns a true value,
\* and an exception raised by __exit__ takes its place.
Propagated ==
    IF err # NoError THEN err.type
    ELSE IF exc_in # "none" /\ ~RetTruthy(ret) THEN exc_in
    ELSE "none"

Next ==
    \/ Start
    \/ Measure
    \/ Stop
    \/ Restart
    \/ Log
    \/ Sleep
    \/ Enter
    \/ Exit

Spec == Init /\ [][Next]_vars

(***************************************************************************)
(* The caller of the times accessor: it keeps the returned list and changes *)
(* it with the methods of list.                                            *)
(***************************************************************************)
Times ==
    /\ op' = "times"
    /\ held' = times(Self).object
    /\ args' = <<>>
    /\ exc_in' = "none"
    /\ err' = NoError
    /\ ret' = RetList
    /\ logged' = <<>>
    /\ err0' = NoError
    /\ ret0' = RetList
    /\ logged0' = <<>>
    /\ UNCHANGED <<config, start_time, recorded_times, start_time0,
                   recorded_times0, clock, depth, session, since_stop,
                   started_at>>

RECURSIVE Reversed(_)
Reversed(l) == IF l = <<>> THEN <<>> ELSE Append(Reversed(Tail(l)), Head(l))

\* list.clear(), list.pop(), list.reverse(), list.append(9)
ListMethods == {"clear", "pop", "reverse", "append"}

Mutated(method, l) ==
    CASE method = "clear" -> <<>>
      [] method = "pop" -> SubSeq(l, 1, Len(l) - 1)
      [] method = "reverse" -> Reversed(l)
      [] OTHER -> Append(l, 9)

\* The caller changes the list it holds; a list that is the timer's own
\* recorded_times changes with it.
CallerMutates ==
    \E method \in ListMethods :
        /\ held # "none"
        /\ method = "pop" => recorded_times # <<>> /\ recorded_times0 # <<>>
        /\ method = "append" => Room
        /\ op' = "caller"
        /\ args' = <<>>
        /\ recorded_times' = IF held = "recorded_times"
                              THEN Mutated(method, recorded_times)
                              ELSE recorded_times
        /\ recorded_times0' = IF held = "recorded_times"
                               THEN Mutated(method, recorded_times0)
                               ELSE recorded_times0
        /\ session' = 0
        /\ exc_in' = "none"
        /\ err' = NoError
        /\ ret' = RetNone
        /\ logged' = <<>>
        /\ err0' = NoError
        /\ ret0' = RetNone
        /\ logged0' = <<>>
        /\ UNCHANGED <<config, start_time, start_time0, clock, depth,
                       since_stop, started_at, held>>

NextAlias ==
    \/ Start
    \/ Measure
    \/ Stop
    \/ Sleep
    \/ Times
    \/ CallerMutates

SpecAlias == Init /\ [][NextAlias]_vars

\* Runs of start, measure and stop, with the start_time of the run kept
StartRun ==
    \E m \in StartMessages :
        /\ Track("start", <<m>>, start(Self, m, clock), start(Self0, m, clock))
        /\ exc_in' = "none"
        /\ UNCHANGED <<clock, depth>>

MeasureRun ==
    \E m \in ClickMessages :
        /\ Room
        /\ Track("measure", m, measure(Self, m[1], m[2], clock),
                 measure(Self0, m[1], m[2], clock))
        /\ exc_in' = "none"
        /\ UNCHANGED <<clock, depth>>

StopRun ==
    \E m \in ClickMessages :
        /\ Room
        /\ Track("stop", m, stop(Self, m[1], m[2], clock), stop(Self0, m[1], m[2], clock))
        /\ exc_in' = "none"
        /\ UNCHANGED <<clock, depth>>

NextRun ==
    \/ StartRun
    \/ MeasureRun
    \/ StopRun
    \/ Sleep

SpecRun == Init /\ [][NextRun]_vars

(***************************************************************************)
(* The messages: timers with a sink, called with every kind of message     *)
(***************************************************************************)
TwoLineTemplate == <<"took", NL, "{:0.4f}">>

AllNames == {None, Some(<<>>), Some(<<"t">>)}

AllMessages ==
    {MsgNone, MsgStr(<<>>), MsgStr(<<"a">>), MsgStr(<<"a", NL, "b">>),
     MsgStr(<<"a", NL>>)} \cup {MsgDefault(c) : c \in DefaultMessage}

InitMsg ==
    /\ name \in AllNames
    /\ message \in {DefaultTemplate, TwoLineTemplate}
    /\ logger = "sink"
    /\ start_time = None
    /\ recorded_times = <<>>
    /\ clock = 0
    /\ depth = 0
    /\ session = 0
    /\ since_stop = FALSE
    /\ started_at = None
    /\ op = "init"
    /\ args = <<>>
    /\ exc_in = "none"
    /\ err = NoError
    /\ ret = RetNone
    /\ logged = <<>>
    /\ held = "none"
    /\ start_time0 = start_time
    /\ recorded_times0 = <<>>
    /\ err0 = NoError
    /\ ret0 = RetNone
    /\ logged0 = <<>>

StartAny ==
    \E m \in AllMessages :
        /\ Apply("start", <<m>>, start(Self, m, clock), start(Self0, m, clock))
        /\ exc_in' = "none"
        /\ UNCHANGED <<clock, depth>>

MeasureAny ==
    \E pre \in AllMessages, post \in AllMessages :
        /\ Room
        /\ Apply("measure", <<pre, post>>, measure(Self, pre, post, clock),
                 measure(Self0, pre, post, clock))
        /\ exc_in' = "none"
        /\ UNCHANGED <<clock, depth>>

StopAny ==
    \E pre \in AllMessages, post \in AllMessages :
        /\ Room
        /\ Apply("stop", <<pre, post>>, stop(Self, pre, post, clock),
                 stop(Self0, pre, post, clock))
        /\ exc_in' = "none"
        /\ UNCHANGED <<clock, depth>>

LogAny ==
    \E m \in AllMessages :
        /\ Apply("log", <<m>>, log(Self, m), log(Self0, m))
        /\ exc_in' = "none"
        /\ UNCHANGED <<clock, depth>>

NextMsg ==
    \/ StartAny
    \/ MeasureAny
    \/ StopAny
    \/ LogAny

SpecMsg == InitMsg /\ [][NextMsg]_vars

(***************************************************************************)
(* Properties                                                              *)
(***************************************************************************)
Running == start_time # None
Stopped == start_time = None

\* C1: start on a RUNNING timer raises TimerAlreadyRunningError and leaves
\* recorded_times and start_time as they were, whatever click_message is.
C1_StartWhileRunning ==
    [][(op' = "start" /\ Running) =>
          /\ err'.type = "TimerAlreadyRunningError"
          /\ ret' = RetRaised
          /\ UNCHANGED <<start_time, recorded_times>>]_vars

C1_Witness ==
    /\ op = "start"
    /\ err.type = "TimerAlreadyRunningError"
    /\ args = <<MsgDefault("START")>>
    /\ recorded_times # <<>>

\* C2: measure and stop on a STOPPED timer raise TimerNotRunningError whose
\* action is "measure" and "stop" respectively, change neither start_time nor
\* recorded_times and send no line to the logger.
C2_ClickWhileStopped ==
    [][(op' \in {"measure", "stop"} /\ Stopped) =>
          /\ err'.type = "TimerNotRunningError"
          /\ err'.action = op'
          /\ UNCHANGED <<start_time, recorded_times>>
          /\ logged' = <<>>]_vars

C2_Witness ==
    /\ op = "measure"
    /\ err.type = "TimerNotRunningError"
    /\ err.action = "measure"
    /\ logger = "sink"
    /\ recorded_times # <<>>

\* C3: whenever start, measure or stop ends by raising an error (the error of
\* the state check, of the sink or of formatting), start_time and
\* recorded_times are what they were before the call.
C3_NoPartialMutation ==
    [][(op' \in {"start", "measure", "stop"} /\ err' # NoError) =>
          UNCHANGED <<start_time, recorded_times>>]_vars

\* C4 as stated: when the block of a with statement raises, the exit leaves
\* the timer STOPPED, has appended exactly one sample, and the error of the
\* block reaches the caller.
C4_Original ==
    [][(op' = "exit" /\ exc_in' = "BlockError") =>
          /\ start_time' = None
          /\ Len(recorded_times') = Len(recorded_times) + 1
          /\ Propagated' = "BlockError"]_vars

\* C4 as amended: when the block of a with statement raises, the exit leaves
\* the timer STOPPED; it appends exactly one sample if the timer was still
\* RUNNING and none if the block had stopped it; the error of the block
\* reaches the caller unless the stop made by the exit raises itself (sink or
\* formatting), and then that error reaches the caller in its place.
C4_ScopedErrorExit ==
    [][(op' = "exit" /\ exc_in' = "BlockError") =>
          /\ start_time' = None
          /\ recorded_times' = IF Running
                                THEN Append(recorded_times, clock - start_time[1])
                                ELSE recorded_times
          /\ err' = NoError => Propagated' = "BlockError"
          /\ err' # NoError =>
                /\ Running
                /\ err'.type \in {"SinkError", "ValueError"}
                /\ Propagated' = err'.type]_vars

C4_Witness ==
    /\ op = "exit"
    /\ exc_in = "BlockError"
    /\ Stopped
    /\ logged # <<>>
    /\ Propagated = "BlockError"

\* C5: however the block is left, the exit performs stop once if the timer is
\* still RUNNING, and does nothing if the block has stopped the timer: no
\* sample, no line to the logger, no error.
C5_ExitStopsOnce ==
    [][op' = "exit" =>
          IF Running
          THEN /\ start_time' = None
               /\ recorded_times' = Append(recorded_times, clock - start_time[1])
          ELSE /\ UNCHANGED <<start_time, recorded_times>>
               /\ logged' = <<>>
               /\ err' = NoError]_vars

C5_Witness ==
    /\ op = "exit"
    /\ exc_in = "none"
    /\ logger = "sink"
    /\ message = DefaultTemplate
    /\ recorded_times # <<>>
    /\ logged = <<>>
    /\ err = NoError


\* C6: restart(pre, post) on a RUNNING timer does what stop(pre, post) followed
\* by start() does: when it returns the timer is RUNNING with start_time read
\* from the clock anew, the sample of the stop is the one new sample, the
\* lines logged are those of the stop, and the timer itself is returned.
C6_RestartIsStopThenStart ==
    [][(op' = "restart" /\ Running /\ err' = NoError) =>
          /\ start_time' = Some(clock')
          /\ recorded_times' = Append(recorded_times, clock - start_time[1])
          /\ logged' = stop(Self, args'[1], args'[2], clock).logged
          /\ ret' = RetSelf]_vars

C6_Witness ==
    /\ op = "restart"
    /\ err = NoError
    /\ args = <<MsgStr(<<"a", NL, "b">>), MsgDefault("MEASURE")>>
    /\ Len(logged) = 4
    /\ start_time = Some(clock)
    /\ Len(recorded_times) = 1
    /\ recorded_times[1] < clock

\* C7: recorded_times is only appended to: a measure or stop that returns
\* appends exactly one sample after the earlier ones, which stay as they
\* were; start, log and every call that raises append nothing.
C7_AppendOnly ==
    [][LET n == Len(recorded_times)
       IN /\ Len(recorded_times') >= n
          /\ SubSeq(recorded_times', 1, n) = recorded_times
          /\ (op' \in {"measure", "stop"} /\ err' = NoError) =>
                Len(recorded_times') = n + 1
          /\ (op' \in {"start", "log"} \/ err' # NoError) =>
                recorded_times' = recorded_times]_vars

\* C8: with a clock that never goes back, every recorded sample is
\* non-negative, and the samples of one running session (those recorded since
\* start_time was set) are non-decreasing, also for a timer constructed with
\* a start_time.
C8_SamplesNonNegativeOrdered ==
    LET n == Len(recorded_times)
    IN /\ \A i \in 1..n : recorded_times[i] >= 0
       /\ \A i, j \in (n - session + 1)..n :
             i < j => recorded_times[i] <= recorded_times[j]

\* C9: a stop that returns leaves the timer STOPPED, and from then until a
\* start returns every measure and stop raises TimerNotRunningError, whatever
\* log calls and failed calls come in between.
C9_StoppedUntilStart ==
    [][/\ (op' = "stop" /\ err' = NoError) => start_time' = None
       /\ (since_stop /\ op' \in {"measure", "stop"}) =>
             err'.type = "TimerNotRunningError"]_vars

C11_TimesIsReadOnly ==
    [][op' = "caller" => recorded_times' = recorded_times]_vars

\* C12 as stated: start on a STOPPED timer never raises and leaves the timer
\* RUNNING with start_time the reading of the clock at the call, for every
\* click_message and every logger; recorded_times is unchanged.
C12_Original ==
    [][(op' = "start" /\ Stopped) =>
          /\ err' = NoError
          /\ start_time' = Some(clock)
          /\ recorded_times' = recorded_times]_vars

\* C12 as amended: start on a STOPPED timer raises no error of its own; it
\* ends with an error only when the sink raises while logging a click_message,
\* and that error goes to the caller. When it returns, the timer is RUNNING
\* with start_time the reading of the clock at the call and the timer is
\* returned. recorded_times is unchanged in every case.
C12_StartWhileStopped ==
    [][(op' = "start" /\ Stopped) =>
          /\ err' \in {NoError, SinkError}
          /\ err' = SinkError => (logger = "raising" /\ MsgTruthy(args'[1]))
          /\ err' = NoError => (start_time' = Some(clock) /\ ret' = RetSelf)
          /\ recorded_times' = recorded_times]_vars

C12_Witness ==
    /\ op = "start"
    /\ err = NoError
    /\ args = <<MsgStr(<<>>)>>
    /\ logger = "raising"
    /\ start_time = Some(clock)
    /\ clock > 0
    /\ recorded_times # <<>>

\* C13: a start that returns returns the timer it was called on, and the
\* entry of a with-block, which makes that start, hands the same timer to the
\* block (`with timer as x`).
C13_ReturnsSelf ==
    [][(op' \in {"start", "enter"} /\ err' = NoError) => ret' = RetSelf]_vars

ClickLogged == op \in {"measure", "stop"} /\ err = NoError /\ logger = "sink"

\* The body: the template with the returned elapsed time in it
BodyText == Format(message, ret.val)

NewlineCount(text) == Cardinality({i \in 1..Len(text) : text[i] = NL})

\* The first word of the timestamp line of each DefaultMessage member
PrefixOfMember(c) ==
    CASE c = "START" -> "START: "
      [] c = "MEASURE" -> "MEASURED: "
      [] c = "END" -> "END: "

\* C15 as stated: a default-marker message becomes a timestamp line chosen by
\* the operation it is given to: as pre-message of stop a first line that
\* starts with "END: ", followed at once by the body; "MEASURED: " in a
\* measure and "START: " in a start.
C15_Original ==
    (op \in {"start", "measure", "stop"} /\ err = NoError /\ logger = "sink"
        /\ args[1].kind = "default") =>
        /\ logged[1][1] = (CASE op = "start" -> "START: "
                              [] op = "measure" -> "MEASURED: "
                              [] op = "stop" -> "END: ")
        /\ op # "start" =>
              SubSeq(logged, 2, 2 + NewlineCount(BodyText)) = Split(BodyText)

\* C15 as amended: a default-marker message becomes a timestamp line chosen
\* by the DefaultMessage member that is passed, whatever the method: END
\* gives a line that starts with "END: ", MEASURE "MEASURED: " and START
\* "START: "; as pre-message of measure or stop it is the first line logged
\* and the body follows it at once.
C15_DefaultMarkerLine ==
    (op \in {"start", "measure", "stop"} /\ err = NoError /\ logger = "sink"
        /\ args[1].kind = "default") =>
        /\ logged[1] = <<PrefixOfMember(args[1].ctx), "<iso>">>
        /\ op # "start" =>
              SubSeq(logged, 2, 2 + NewlineCount(BodyText)) = Split(BodyText)

C15_Witness ==
    /\ op = "stop"
    /\ err = NoError
    /\ args = <<MsgDefault("END"), MsgNone>>
    /\ name = Some(<<"t">>)
    /\ logged = <<<<"END: ", "<iso>">>, <<"Elapsed time: ", "0", ".0000", " seconds.">>>>

\* The lines a literal string stands for: one per line of its text
LiteralLines(m) == Split(m.s)

\* C16: a measure or stop that returns calls the logger once per line, the
\* lines of the pre part first, then the body, then the lines of the post
\* part; a literal with k newlines makes k+1 calls in the order of its text,
\* and no call gets a text with a newline in it.
C16_LineByLine ==
    ClickLogged =>
        /\ \A i \in 1..Len(logged) : NewlineCount(logged[i]) = 0
        /\ args[1].kind = "str" =>
              /\ Len(LiteralLines(args[1])) = NewlineCount(args[1].s) + 1
              /\ SubSeq(logged, 1, NewlineCount(args[1].s) + 1) = LiteralLines(args[1])
        /\ args[2].kind = "str" =>
              SubSeq(logged, Len(logged) - NewlineCount(args[2].s), Len(logged))
                  = LiteralLines(args[2])
        /\ (args[1].kind = "str" /\ args[2].kind = "str") =>
              SubSeq(logged, NewlineCount(args[1].s) + 2,
                     Len(logged) - NewlineCount(args[2].s) - 1) = Split(BodyText)

\* The lines a message stands for when a string is taken as it is, a
\* default-marker is its timestamp line and None is no text
VerbatimLines(m) ==
    CASE m.kind = "str" -> Split(m.s)
      [] m.kind = "default" -> <<<<PrefixOfMember(m.ctx), "<iso>">>>>
      [] OTHER -> <<>>

\* C17: in measure and stop a string is logged as it is (every string, the
\* empty one too), a default-marker as its timestamp line and an absent
\* message as nothing, except that an absent pre-message on a timer with a
\* name gives the line "<name>:"; that line comes only when the pre-message
\* is absent, and an absent post-message gives no line.
C17_ThreeWayResolution ==
    ClickLogged =>
        logged = (IF args[1].kind = "none" /\ name # None /\ name[1] # <<>>
                  THEN <<name[1] \o <<":">>>>
                  ELSE VerbatimLines(args[1]))
                 \o Split(BodyText)
                 \o VerbatimLines(args[2])

\* C18: restart fails exactly when stop would, and with the same error. On a
\* STOPPED timer it raises TimerNotRunningError with action "stop" and leaves
\* start_time and recorded_times as they were; on a RUNNING timer it never
\* raises TimerAlreadyRunningError, and when its stop returns the start
\* returns too and the timer is RUNNING.
C18_RestartFailsAsStop ==
    [][op' = "restart" =>
          /\ err' = stop(Self, args'[1], args'[2], clock).err
          /\ Stopped =>
                /\ err' = TimerNotRunningError(Self, "stop")
                /\ UNCHANGED <<start_time, recorded_times>>
          /\ Running =>
                /\ err'.type # "TimerAlreadyRunningError"
                /\ err' = NoError => start_time' = Some(clock')]_vars

C18_Witness ==
    /\ op = "restart"
    /\ err = TimerNotRunningError(Self, "stop")
    /\ start_time = None
    /\ since_stop
    /\ recorded_times # <<>>

\* C20: __enter__ on a RUNNING timer, started by a call or constructed with a
\* start_time, raises TimerAlreadyRunningError; the block is not entered, so
\* its __exit__ is not owed, start_time stays what it was and no sample is
\* appended.
C20_EnterWhileRunning ==
    [][(op' = "enter" /\ Running) =>
          /\ err' = TimerAlreadyRunningError(Self)
          /\ ret' = RetRaised
          /\ depth' = depth
          /\ logged' = <<>>
          /\ UNCHANGED <<start_time, recorded_times>>]_vars

C20_Witness ==
    /\ op = "enter"
    /\ err = TimerAlreadyRunningError(Self)
    /\ depth = 0
    /\ start_time # None
    /\ start_time[1] > clock
    /\ recorded_times = <<>>

\* C19: a measure that returns leaves the timer RUNNING with start_time as it
\* was, so every sample recorded by a measure or stop that returns, after a
\* start that returned and up to the next stop that returns, is the clock
\* minus the start_time of that start; and the samples of one such run are
\* increasing.
C19_SameStartTime ==
    [][/\ (op' = "measure" /\ err' = NoError) =>
             (start_time' # None /\ start_time' = start_time)
       /\ (op' \in {"measure", "stop"} /\ err' = NoError /\ started_at # None) =>
             /\ recorded_times'[Len(recorded_times')] = clock - started_at[1]
             /\ session > 0 =>
                   recorded_times'[Len(recorded_times')]
                       > recorded_times[Len(recorded_times)]]_vars

====
